---- MODULE Spec2Model ----
(***************************************************************************)
(* HEAVEN: a short-video backend.  Two server programs live in the         *)
(* repository: server.js (validators, bcrypt, JWT, rate limiters, multer   *)
(* file filter) and an older program (src/unnamed/part_000: plaintext      *)
(* passwords, no token, no limiter).  Exactly one of them runs; `variant`  *)
(* says which.  Requests are handled concurrently: every `await` of a      *)
(* handler is a point where other requests' steps interleave.              *)
(***************************************************************************)
EXTENDS Integers, Sequences, FiniteSets, TLC

VARIABLES
  variant,       \* "server.js" or "part_000": the program that is running
  users,         \* the User collection: a set of documents
  reels,         \* the Reel collection, in insertion (natural) order
  files,         \* the names of the files in uploads/reels
  hits,          \* the two rate limiters' memory stores: route -> client -> counter
  now,           \* Date.now(), in milliseconds
  ticks,         \* how often the clock has advanced
  nextId,        \* the next ObjectId
  conns,         \* the requests in flight, one per connection slot
  issued,        \* history: the tokens login responses handed out, and when
  nreq,          \* how many requests have arrived
  lastResponse,  \* the response sent last, with the request it answers
  regOk,         \* history: email -> number of 200 answers of /api/register
  arrivals       \* history: route -> client -> [start, count] of the client's current window

vars == <<variant, users, reels, files, hits, now, ticks, nextId, conns, issued,
          nreq, lastResponse, regOk, arrivals>>

-----------------------------------------------------------------------------
(* Bounds of the model *)

MaxConns == 2
MaxReqs == 3
MaxTicks == 2
MaxOver == 2

(* Constants of the program *)

WindowMs == 900000
LoginMax == 10
UploadMax == 20
FileSizeLimit == 52428800
ExpiresInSec == 3600
BcryptCost == 10
MinPasswordLen == 6

-----------------------------------------------------------------------------
(* JSON values of a request body: a string, a number, an object holding a   *)
(* query operator, or an absent field.                                      *)

Str(s) == [t |-> "string", v |-> s]
Num(s) == [t |-> "number", v |-> s]
NeOp(s) == [t |-> "object", v |-> s]
Undefined == [t |-> "undefined", v |-> ""]

Clients == {"ip1", "ip2"}
Conn == 1..MaxConns
LimitedRoutes == {"login", "upload"}

ValidEmails == {"a@x.com", "b@x.com"}
EmailStrings == ValidEmails \cup {"nope", ""}
StrLen(s) ==
  CASE s = "secret1" -> 7
    [] s = "secret2" -> 7
    [] s = "abc" -> 3
    [] s = "123456" -> 6
    [] s = "a@x.com" -> 7
    [] s = "b@x.com" -> 7
    [] s = "nope" -> 4
    [] s = "t1" -> 2
    [] OTHER -> 0

\* JavaScript truthiness of a JSON value: !v is true for undefined and "".
Truthy(v) == v.t # "undefined" /\ ~(v.t = "string" /\ v.v = "")

\* express-validator stringifies the field, then runs the validator.
isEmail(v) == v.t = "string" /\ v.v \in ValidEmails
isLength(v, min) == v.t \in {"string", "number"} /\ StrLen(v.v) >= min
exists(v) == v.t # "undefined"

-----------------------------------------------------------------------------
(* Documents *)

NoCred == [alg |-> "none", cost |-> 0, of |-> Undefined]
NoUser == [id |-> 0, email |-> "", cred |-> NoCred]

\* bcrypt.hash(password, 10): a salted hash; it throws on a non-string.
bcryptThrows(password) == password.t # "string"
bcryptHash(password) == [alg |-> "bcrypt", cost |-> BcryptCost, of |-> password]
bcryptCompare(password, h) == h.alg = "bcrypt" /\ h.of = password

\* Mutant: the filter names a field no document matches.
UsersWithNone(email) == {u \in users : u.email = email /\ u.id = 0}

\* The documents findOne({ email }) can return.
UsersWith(email) == {u \in users : u.email = email}

-----------------------------------------------------------------------------
(* Tokens: the claim set jwt.sign signs, and who signed it. *)

NoToken == [userId |-> 0, email |-> "", iat |-> 0, exp |-> 0, sig |-> "none"]

\* jwt.sign({userId, email}, JWT_SECRET, {expiresIn: '1h'})
jwtSign(userId, email) ==
  LET iat == now \div 1000
  IN [userId |-> userId, email |-> email, iat |-> iat, exp |-> iat + ExpiresInSec,
      sig |-> "JWT_SECRET"]

\* Mutant: the token is still taken in the second it expires.
jwtVerifyErrLate(token) ==
  \/ token.sig # "JWT_SECRET"
  \/ (now \div 1000) > token.exp

\* jwt.verify(token, JWT_SECRET, cb): err unless signed with the secret and
\* the clock, in whole seconds, is before exp.
jwtVerifyErr(token) ==
  \/ token.sig # "JWT_SECRET"
  \/ (now \div 1000) >= token.exp

-----------------------------------------------------------------------------
(* Responses *)

NoList == <<>>
Json(success, message) ==
  [fmt |-> "json", success |-> success, message |-> message, error |-> "",
   errors |-> FALSE, token |-> NoToken, list |-> NoList]
JsonError(message, error) == [Json(FALSE, message) EXCEPT !.error = error]
JsonErrors == [Json(FALSE, "") EXCEPT !.errors = TRUE]
JsonToken(message, token) == [Json(TRUE, message) EXCEPT !.token = token]
JsonArray(list) ==
  [fmt |-> "array", success |-> TRUE, message |-> "", error |-> "",
   errors |-> FALSE, token |-> NoToken, list |-> list]
\* Express's default error handler: the error's stack as an HTML page.
HtmlError(message) ==
  [fmt |-> "html", success |-> FALSE, message |-> message, error |-> "",
   errors |-> FALSE, token |-> NoToken, list |-> NoList]

NoResponse == [req |-> [kind |-> "none"], status |-> 0, body |-> Json(FALSE, "")]

-----------------------------------------------------------------------------
(* Requests in flight *)

Idle == [kind |-> "idle"]
NoHeader == [parts |-> 0, token |-> NoToken]
NoFile == [present |-> FALSE, type |-> "", subtype |-> "", originalname |-> <<>>,
           size |-> 0]
NoName == [ts |-> 0, name |-> <<>>]
NoReel == [id |-> 0, title |-> "", filename |-> NoName, created |-> 0]

Request(kind, client, pc, email, password, auth, file, title) ==
  [kind |-> kind, client |-> client, pc |-> pc, email |-> email,
   password |-> password, auth |-> auth, file |-> file, title |-> title,
   user |-> NoUser, cred |-> NoCred, filename |-> NoName, reel |-> NoReel,
   prior |-> 0, nth |-> 0, at |-> 0, faulted |-> FALSE]

IdleSlots == {k \in Conn : conns[k] = Idle}
Busy == {k \in Conn : conns[k] # Idle}

\* res.status(s).json(b): the request leaves its slot and the response is sent.
Respond(k, r, status, body) ==
  /\ conns' = [conns EXCEPT ![k] = Idle]
  /\ lastResponse' = [req |-> r, status |-> status, body |-> body]

-----------------------------------------------------------------------------
(* express-rate-limit, memory store: a fixed window per client address.     *)

NoHits == [totalHits |-> 0, resetTime |-> 0]
NoWindow == [start |-> 0, count |-> 0]

Max(route) == IF route = "login" THEN LoginMax ELSE UploadMax

\* store.increment(key): a new window when the old one has run out.
Increment(h) ==
  IF h.totalHits = 0 \/ h.resetTime <= now
    THEN [totalHits |-> 1, resetTime |-> now + WindowMs]
    ELSE [h EXCEPT !.totalHits = h.totalHits + 1]

\* Mutant: the request that reaches max is refused already.
LimitedAtMax(route, c) == Increment(hits[route][c]).totalHits >= Max(route)

\* The middleware answers 429 itself when the count is over max.
Limited(route, c) == Increment(hits[route][c]).totalHits > Max(route)

\* History: the window the arrival falls in, counted from its first request.
Observe(w) ==
  IF w.count = 0 \/ now - w.start >= WindowMs
    THEN [start |-> now, count |-> 1]
    ELSE [w EXCEPT !.count = w.count + 1]

Count(route, c) ==
  /\ hits' = [hits EXCEPT ![route][c] = Increment(hits[route][c])]
  /\ arrivals' = [arrivals EXCEPT ![route][c] = Observe(arrivals[route][c])]

-----------------------------------------------------------------------------
(* POST /api/register, server.js *)

RegisterArrive(k, email, password) ==
  /\ variant = "server.js"
  /\ k \in IdleSlots
  /\ LET r == [Request("register", "any", "findOne", email, password, NoHeader, NoFile,
                       Undefined) EXCEPT !.prior = regOk[email.v]]
     IN IF ~(isEmail(email) /\ isLength(password, MinPasswordLen))
          THEN Respond(k, r, 400, JsonErrors)
          ELSE /\ conns' = [conns EXCEPT ![k] = r]
               /\ UNCHANGED lastResponse
  /\ nreq' = nreq + 1
  /\ UNCHANGED <<variant, users, reels, files, hits, now, ticks, nextId, issued,
                 regOk, arrivals>>

\* await User.findOne({ email }), then bcrypt.hash and new User(...).save()
RegisterFindOne(k) ==
  /\ variant = "server.js"
  /\ k \in Busy
  /\ LET r == conns[k]
     IN /\ r.kind = "register" /\ r.pc = "findOne"
        /\ IF UsersWith(r.email.v) # {}
             THEN Respond(k, r, 409, Json(FALSE, "User already exists"))
             ELSE IF bcryptThrows(r.password)
               THEN Respond(k, r, 500, JsonError("Server error", "Illegal arguments"))
               ELSE /\ conns' = [conns EXCEPT ![k] =
                                   [r EXCEPT !.pc = "save",
                                             !.cred = bcryptHash(r.password)]]
                    /\ UNCHANGED lastResponse
  /\ UNCHANGED <<variant, users, reels, files, hits, now, ticks, nextId, issued,
                 nreq, regOk, arrivals>>

\* Mutant: the schema has no unique index.
DuplicateKeyNoIndex(email) == FALSE

\* email: { unique: true }: the index refuses a second document with the email.
DuplicateKey(email) == UsersWith(email) # {}

\* await newUser.save(), then res.json
RegisterSave(k) ==
  /\ variant = "server.js"
  /\ k \in Busy
  /\ LET r == conns[k]
     IN /\ r.kind = "register" /\ r.pc = "save"
        /\ IF DuplicateKey(r.email.v)
             THEN /\ Respond(k, r, 500, JsonError("Server error", "E11000 duplicate key"))
                  /\ UNCHANGED <<users, nextId, regOk>>
             ELSE /\ users' = users \cup
                       {[id |-> nextId, email |-> r.email.v, cred |-> r.cred]}
                  /\ nextId' = nextId + 1
                  /\ regOk' = [regOk EXCEPT ![r.email.v] = @ + 1]
                  /\ Respond(k, r, 200, Json(TRUE, "User registered successfully"))
  /\ UNCHANGED <<variant, reels, files, hits, now, ticks, issued, nreq, arrivals>>

\* catch (err): a store operation of the handler rejects
RegisterStoreError(k) ==
  /\ variant = "server.js"
  /\ k \in Busy
  /\ LET r == conns[k]
     IN /\ r.kind = "register" /\ r.pc \in {"findOne", "save"}
        /\ Respond(k, [r EXCEPT !.faulted = TRUE], 500,
                   JsonError("Server error", "store"))
  /\ UNCHANGED <<variant, users, reels, files, hits, now, ticks, nextId, issued,
                 nreq, regOk, arrivals>>

-----------------------------------------------------------------------------
(* POST /api/login, server.js *)

\* loginLimiter, the validators, then the handler up to its first await
LoginArrive(k, c, email, password) ==
  /\ variant = "server.js"
  /\ k \in IdleSlots
  /\ Count("login", c)
  /\ LET r == [Request("login", c, "findOne", email, password, NoHeader, NoFile,
                       Undefined)
                 EXCEPT !.nth = Observe(arrivals["login"][c]).count]
     IN IF Limited("login", c)
          THEN Respond(k, r, 429,
                       Json(FALSE, "Too many login attempts, please try later."))
          ELSE IF ~(isEmail(email) /\ exists(password))
            THEN Respond(k, r, 400, JsonErrors)
            ELSE /\ conns' = [conns EXCEPT ![k] = r]
                 /\ UNCHANGED lastResponse
  /\ nreq' = nreq + 1
  /\ UNCHANGED <<variant, users, reels, files, now, ticks, nextId, issued, regOk>>

\* await User.findOne({ email })
LoginFindOne(k) ==
  /\ variant = "server.js"
  /\ k \in Busy
  /\ LET r == conns[k]
     IN /\ r.kind = "login" /\ r.pc = "findOne"
        /\ IF UsersWith(r.email.v) = {}
             THEN Respond(k, r, 401, Json(FALSE, "Invalid email or password"))
             ELSE \E u \in UsersWith(r.email.v) :
                    /\ conns' = [conns EXCEPT ![k] =
                                   [r EXCEPT !.pc = "compare", !.user = u]]
                    /\ UNCHANGED lastResponse
  /\ UNCHANGED <<variant, users, reels, files, hits, now, ticks, nextId, issued,
                 nreq, regOk, arrivals>>

\* await bcrypt.compare(password, user.passwordHash), then jwt.sign
LoginCompare(k) ==
  /\ variant = "server.js"
  /\ k \in Busy
  /\ LET r == conns[k]
         token == jwtSign(r.user.id, r.user.email)
     IN /\ r.kind = "login" /\ r.pc = "compare"
        /\ IF bcryptThrows(r.password)
             THEN /\ Respond(k, r, 500, JsonError("Server error", "Illegal arguments"))
                  /\ UNCHANGED issued
             ELSE IF ~bcryptCompare(r.password, r.user.cred)
               THEN /\ Respond(k, r, 401, Json(FALSE, "Invalid email or password"))
                    /\ UNCHANGED issued
               ELSE /\ Respond(k, r, 200, JsonToken("Login successful", token))
                    /\ issued' = issued \cup {[token |-> token, at |-> now]}
  /\ UNCHANGED <<variant, users, reels, files, hits, now, ticks, nextId, nreq,
                 regOk, arrivals>>

\* catch (err): the store lookup rejects
LoginStoreError(k) ==
  /\ variant = "server.js"
  /\ k \in Busy
  /\ LET r == conns[k]
     IN /\ r.kind = "login" /\ r.pc = "findOne"
        /\ Respond(k, [r EXCEPT !.faulted = TRUE], 500,
                   JsonError("Server error", "store"))
  /\ UNCHANGED <<variant, users, reels, files, hits, now, ticks, nextId, issued,
                 nreq, regOk, arrivals>>

-----------------------------------------------------------------------------
(* POST /api/upload, server.js *)

Bearer(token) == [parts |-> 2, token |-> token]
BearerOnly == [parts |-> 1, token |-> NoToken]
File(type, subtype, originalname, size) ==
  [present |-> TRUE, type |-> type, subtype |-> subtype,
   originalname |-> originalname, size |-> size]

\* file.mimetype.startsWith('video/')
fileFilter(file) == file.type = "video"

\* limits: { fileSize }: multer aborts the upload and removes what it wrote.
TooLarge(file) == file.size > FileSizeLimit

RECURSIVE DropSpaces(_)
DropSpaces(s) ==
  IF s # <<>> /\ Head(s) = " " THEN DropSpaces(Tail(s)) ELSE s

\* originalname.replace(/\s+/g, '_')
RECURSIVE Sanitize(_)
Sanitize(s) ==
  IF s = <<>> THEN <<>>
  ELSE IF Head(s) = " " THEN <<"_">> \o Sanitize(DropSpaces(s))
  ELSE <<Head(s)>> \o Sanitize(Tail(s))

\* Date.now() + '-' + sanitized original name
filename(file) == [ts |-> now, name |-> Sanitize(file.originalname)]

\* authHeader.split(' ')[1]
SplitToken(auth) == IF auth.parts >= 2 THEN auth.token ELSE NoToken

\* uploadLimiter, then upload.single('video'): the file is on disk before the
\* handler runs; a multer error goes to Express's default error handler.
UploadArrive(k, c, auth, file, title) ==
  /\ variant = "server.js"
  /\ k \in IdleSlots
  /\ Count("upload", c)
  /\ LET r == [Request("upload", c, "handler", Undefined, Undefined, auth, file, title)
                 EXCEPT !.nth = Observe(arrivals["upload"][c]).count]
     IN IF Limited("upload", c)
          THEN /\ Respond(k, r, 429, Json(FALSE, "Too many uploads, please try later."))
               /\ UNCHANGED files
          ELSE IF file.present /\ ~fileFilter(file)
            THEN /\ Respond(k, r, 500, HtmlError("Only video files are allowed"))
                 /\ UNCHANGED files
            ELSE IF file.present /\ TooLarge(file)
              THEN /\ Respond(k, r, 500, HtmlError("File too large"))
                   /\ UNCHANGED files
              ELSE IF file.present
                THEN /\ files' = files \cup {filename(file)}
                     /\ conns' = [conns EXCEPT ![k] =
                                    [r EXCEPT !.filename = filename(file)]]
                     /\ UNCHANGED lastResponse
                ELSE /\ conns' = [conns EXCEPT ![k] = r]
                     /\ UNCHANGED <<files, lastResponse>>
  /\ nreq' = nreq + 1
  /\ UNCHANGED <<variant, users, reels, now, ticks, nextId, issued, regOk>>

\* The handler: header, token, jwt.verify and its callback up to reel.save()
UploadHandler(k) ==
  /\ variant = "server.js"
  /\ k \in Busy
  /\ LET r == [conns[k] EXCEPT !.at = now, !.pc = "verify"]
     IN /\ r.kind = "upload" /\ conns[k].pc = "handler"
        /\ IF r.auth.parts = 0
             THEN /\ Respond(k, r, 401, Json(FALSE, "Authorization header missing"))
                  /\ UNCHANGED nextId
             ELSE IF SplitToken(r.auth) = NoToken
               THEN /\ Respond(k, r, 401, Json(FALSE, "Token missing"))
                    /\ UNCHANGED nextId
               ELSE IF jwtVerifyErr(SplitToken(r.auth))
                 THEN /\ Respond(k, r, 401, Json(FALSE, "Invalid token"))
                      /\ UNCHANGED nextId
                 ELSE IF ~r.file.present \/ ~Truthy(r.title)
                   THEN /\ Respond(k, r, 400, Json(FALSE, "Missing file or title"))
                        /\ UNCHANGED nextId
                   ELSE /\ conns' = [conns EXCEPT ![k] =
                               [r EXCEPT !.pc = "save",
                                         !.reel = [id |-> nextId, title |-> r.title.v,
                                                   filename |-> r.filename,
                                                   created |-> now]]]
                        /\ nextId' = nextId + 1
                        /\ UNCHANGED lastResponse
  /\ UNCHANGED <<variant, users, reels, files, hits, now, ticks, issued, nreq,
                 regOk, arrivals>>

\* await reel.save() resolves, then res.json
UploadSave(k) ==
  /\ variant = "server.js"
  /\ k \in Busy
  /\ LET r == conns[k]
     IN /\ r.kind = "upload" /\ r.pc = "save"
        /\ reels' = Append(reels, r.reel)
        /\ Respond(k, r, 200, Json(TRUE, "Upload successful"))
  /\ UNCHANGED <<variant, users, files, hits, now, ticks, nextId, issued, nreq,
                 regOk, arrivals>>

\* await reel.save() rejects inside the async callback of jwt.verify: the
\* handler's try/catch has returned, nothing catches the rejection and no
\* response is ever sent.
UploadSaveRejects(k) ==
  /\ variant = "server.js"
  /\ k \in Busy
  /\ LET r == conns[k]
     IN /\ r.kind = "upload" /\ r.pc = "save"
        /\ conns' = [conns EXCEPT ![k] =
                       [r EXCEPT !.pc = "unhandledRejection", !.faulted = TRUE]]
  /\ UNCHANGED <<variant, users, reels, files, hits, now, ticks, nextId, issued,
                 nreq, lastResponse, regOk, arrivals>>

-----------------------------------------------------------------------------
(* GET /api/reels *)

\* Mutant: sort({ created: 1 }).
SortedAsc(list) ==
  \A i, j \in 1..Len(list) : i < j => list[i].created <= list[j].created

SortedDesc(list) ==
  \A i, j \in 1..Len(list) : i < j => list[i].created >= list[j].created

\* Reel.find().sort({ created: -1 }): every document, newest first; the order
\* of documents with the same timestamp is the store's choice.
FindSorted ==
  LET n == Len(reels)
      perms == {f \in [1..n -> 1..n] : \A i, j \in 1..n : i # j => f[i] # f[j]}
  IN {list \in {[i \in 1..n |-> reels[f[i]]] : f \in perms} : SortedDesc(list)}

ReelsArrive(k) ==
  /\ variant = "server.js"
  /\ k \in IdleSlots
  /\ conns' = [conns EXCEPT ![k] =
                 Request("reels", "any", "find", Undefined, Undefined, NoHeader,
                         NoFile, Undefined)]
  /\ nreq' = nreq + 1
  /\ UNCHANGED <<variant, users, reels, files, hits, now, ticks, nextId, issued,
                 lastResponse, regOk, arrivals>>

ReelsFind(k) ==
  /\ variant = "server.js"
  /\ k \in Busy
  /\ LET r == conns[k]
     IN /\ r.kind = "reels" /\ r.pc = "find"
        /\ \E list \in FindSorted : Respond(k, r, 200, JsonArray(list))
  /\ UNCHANGED <<variant, users, reels, files, hits, now, ticks, nextId, issued,
                 nreq, regOk, arrivals>>

ReelsStoreError(k) ==
  /\ variant = "server.js"
  /\ k \in Busy
  /\ LET r == conns[k]
     IN /\ r.kind = "reels" /\ r.pc = "find"
        /\ Respond(k, [r EXCEPT !.faulted = TRUE], 500,
                   JsonError("Failed to fetch reels", "store"))
  /\ UNCHANGED <<variant, users, reels, files, hits, now, ticks, nextId, issued,
                 nreq, regOk, arrivals>>

-----------------------------------------------------------------------------
(* The older program, src/unnamed/part_000: plaintext passwords, no          *)
(* validators, no token, no limiter, no file filter, no unique index.        *)

\* Mongoose casts a value for a String path: a number becomes its digits, an
\* object does not cast (in a document) or is a query operator (in a filter).
CastString(v) == IF v.t = "number" THEN Str(v.v) ELSE v
CastFails(v) == v.t = "object"

\* The filter { email, password } of findOne: equality, or the operator $ne.
Matches(u, email, password) ==
  /\ u.email = CastString(email).v
  /\ IF password.t = "object"
       THEN u.cred.of.v # password.v
       ELSE u.cred.of.v = CastString(password).v

RegisterArriveWeak(k, email, password) ==
  /\ variant = "part_000"
  /\ k \in IdleSlots
  /\ LET r == [Request("register", "any", "findOne", email, password, NoHeader, NoFile,
                       Undefined) EXCEPT !.prior = regOk[email.v]]
     IN IF ~Truthy(email) \/ ~Truthy(password)
          THEN Respond(k, r, 400, Json(FALSE, "Missing credentials"))
          ELSE /\ conns' = [conns EXCEPT ![k] = r]
               /\ UNCHANGED lastResponse
  /\ nreq' = nreq + 1
  /\ UNCHANGED <<variant, users, reels, files, hits, now, ticks, nextId, issued,
                 regOk, arrivals>>

\* await User.findOne({ email }), then new User({ email, password }).save()
RegisterFindOneWeak(k) ==
  /\ variant = "part_000"
  /\ k \in Busy
  /\ LET r == conns[k]
     IN /\ r.kind = "register" /\ r.pc = "findOne"
        /\ IF UsersWith(r.email.v) # {}
             THEN Respond(k, r, 409, Json(FALSE, "User already exists"))
             ELSE /\ conns' = [conns EXCEPT ![k] =
                       [r EXCEPT !.pc = "save",
                                 !.cred = [alg |-> "plain", cost |-> 0,
                                           of |-> CastString(r.password)]]]
                  /\ UNCHANGED lastResponse
  /\ UNCHANGED <<variant, users, reels, files, hits, now, ticks, nextId, issued,
                 nreq, regOk, arrivals>>

\* await newUser.save(): the schema has no unique index
RegisterSaveWeak(k) ==
  /\ variant = "part_000"
  /\ k \in Busy
  /\ LET r == conns[k]
     IN /\ r.kind = "register" /\ r.pc = "save"
        /\ IF CastFails(r.password)
             THEN /\ Respond(k, r, 500, JsonError("Server error", "Cast to string failed"))
                  /\ UNCHANGED <<users, nextId, regOk>>
             ELSE /\ users' = users \cup
                       {[id |-> nextId, email |-> r.email.v, cred |-> r.cred]}
                  /\ nextId' = nextId + 1
                  /\ regOk' = [regOk EXCEPT ![r.email.v] = @ + 1]
                  /\ Respond(k, r, 200, Json(TRUE, "User registered successfully"))
  /\ UNCHANGED <<variant, reels, files, hits, now, ticks, issued, nreq, arrivals>>

RegisterStoreErrorWeak(k) ==
  /\ variant = "part_000"
  /\ k \in Busy
  /\ LET r == conns[k]
     IN /\ r.kind = "register" /\ r.pc \in {"findOne", "save"}
        /\ Respond(k, [r EXCEPT !.faulted = TRUE], 500,
                   JsonError("Server error", "store"))
  /\ UNCHANGED <<variant, users, reels, files, hits, now, ticks, nextId, issued,
                 nreq, regOk, arrivals>>

LoginArriveWeak(k, email, password) ==
  /\ variant = "part_000"
  /\ k \in IdleSlots
  /\ LET r == Request("login", "any", "findOne", email, password, NoHeader, NoFile,
                      Undefined)
     IN IF ~Truthy(email) \/ ~Truthy(password)
          THEN Respond(k, r, 400, Json(FALSE, "Missing credentials"))
          ELSE /\ conns' = [conns EXCEPT ![k] = r]
               /\ UNCHANGED lastResponse
  /\ nreq' = nreq + 1
  /\ UNCHANGED <<variant, users, reels, files, hits, now, ticks, nextId, issued,
                 regOk, arrivals>>

\* await User.findOne({ email, password })
LoginFindOneWeak(k) ==
  /\ variant = "part_000"
  /\ k \in Busy
  /\ LET r == conns[k]
     IN /\ r.kind = "login" /\ r.pc = "findOne"
        /\ IF \E u \in users : Matches(u, r.email, r.password)
             THEN Respond(k, r, 200, Json(TRUE, "Login successful"))
             ELSE Respond(k, r, 401, Json(FALSE, "Invalid email or password"))
  /\ UNCHANGED <<variant, users, reels, files, hits, now, ticks, nextId, issued,
                 nreq, regOk, arrivals>>

LoginStoreErrorWeak(k) ==
  /\ variant = "part_000"
  /\ k \in Busy
  /\ LET r == conns[k]
     IN /\ r.kind = "login" /\ r.pc = "findOne"
        /\ Respond(k, [r EXCEPT !.faulted = TRUE], 500,
                   JsonError("Server error", "store"))
  /\ UNCHANGED <<variant, users, reels, files, hits, now, ticks, nextId, issued,
                 nreq, regOk, arrivals>>

\* upload.single('video') with multer({ storage }): any file is written
UploadArriveWeak(k, file, title) ==
  /\ variant = "part_000"
  /\ k \in IdleSlots
  /\ LET r == Request("upload", "any", "handler", Undefined, Undefined, NoHeader, file,
                      title)
     IN IF file.present
          THEN /\ files' = files \cup {filename(file)}
               /\ conns' = [conns EXCEPT ![k] = [r EXCEPT !.filename = filename(file)]]
          ELSE /\ conns' = [conns EXCEPT ![k] = r]
               /\ UNCHANGED files
  /\ nreq' = nreq + 1
  /\ UNCHANGED <<variant, users, reels, hits, now, ticks, nextId, issued,
                 lastResponse, regOk, arrivals>>

UploadHandlerWeak(k) ==
  /\ variant = "part_000"
  /\ k \in Busy
  /\ LET r == conns[k]
     IN /\ r.kind = "upload" /\ r.pc = "handler"
        /\ IF ~r.file.present \/ ~Truthy(r.title)
             THEN /\ Respond(k, r, 400, Json(FALSE, "Missing file or title"))
                  /\ UNCHANGED nextId
             ELSE /\ conns' = [conns EXCEPT ![k] =
                         [r EXCEPT !.pc = "save",
                                   !.reel = [id |-> nextId, title |-> r.title.v,
                                             filename |-> r.filename,
                                             created |-> now]]]
                  /\ nextId' = nextId + 1
                  /\ UNCHANGED lastResponse
  /\ UNCHANGED <<variant, users, reels, files, hits, now, ticks, issued, nreq,
                 regOk, arrivals>>

UploadSaveWeak(k) ==
  /\ variant = "part_000"
  /\ k \in Busy
  /\ LET r == conns[k]
     IN /\ r.kind = "upload" /\ r.pc = "save"
        /\ reels' = Append(reels, r.reel)
        /\ Respond(k, r, 200, Json(TRUE, "Upload successful"))
  /\ UNCHANGED <<variant, users, files, hits, now, ticks, nextId, issued, nreq,
                 regOk, arrivals>>

\* catch (err): here reel.save() is awaited inside the handler's try
UploadStoreErrorWeak(k) ==
  /\ variant = "part_000"
  /\ k \in Busy
  /\ LET r == conns[k]
     IN /\ r.kind = "upload" /\ r.pc = "save"
        /\ Respond(k, [r EXCEPT !.faulted = TRUE], 500,
                   JsonError("Server error", "store"))
  /\ UNCHANGED <<variant, users, reels, files, hits, now, ticks, nextId, issued,
                 nreq, regOk, arrivals>>

ReelsArriveWeak(k) ==
  /\ variant = "part_000"
  /\ k \in IdleSlots
  /\ conns' = [conns EXCEPT ![k] =
                 Request("reels", "any", "find", Undefined, Undefined, NoHeader,
                         NoFile, Undefined)]
  /\ nreq' = nreq + 1
  /\ UNCHANGED <<variant, users, reels, files, hits, now, ticks, nextId, issued,
                 lastResponse, regOk, arrivals>>

ReelsFindWeak(k) ==
  /\ variant = "part_000"
  /\ k \in Busy
  /\ LET r == conns[k]
     IN /\ r.kind = "reels" /\ r.pc = "find"
        /\ \E list \in FindSorted : Respond(k, r, 200, JsonArray(list))
  /\ UNCHANGED <<variant, users, reels, files, hits, now, ticks, nextId, issued,
                 nreq, regOk, arrivals>>

ReelsStoreErrorWeak(k) ==
  /\ variant = "part_000"
  /\ k \in Busy
  /\ LET r == conns[k]
     IN /\ r.kind = "reels" /\ r.pc = "find"
        /\ Respond(k, [r EXCEPT !.faulted = TRUE], 500,
                   JsonError("Failed to fetch reels", "store"))
  /\ UNCHANGED <<variant, users, reels, files, hits, now, ticks, nextId, issued,
                 nreq, regOk, arrivals>>

-----------------------------------------------------------------------------
(* The clock *)

Tick(d) ==
  /\ now' = now + d
  /\ ticks' = ticks + 1
  /\ UNCHANGED <<variant, users, reels, files, hits, nextId, conns, issued, nreq,
                 lastResponse, regOk, arrivals>>

-----------------------------------------------------------------------------

InitStores ==
  /\ users = {}
  /\ reels = <<>>
  /\ files = {}
  /\ hits = [route \in LimitedRoutes |-> [c \in Clients |-> NoHits]]
  /\ now = 0
  /\ ticks = 0
  /\ nextId = 1
  /\ conns = [k \in Conn |-> Idle]
  /\ issued = {}
  /\ nreq = 0
  /\ lastResponse = NoResponse
  /\ regOk = [e \in EmailStrings |-> 0]
  /\ arrivals = [route \in LimitedRoutes |-> [c \in Clients |-> NoWindow]]

Init == variant \in {"server.js", "part_000"} /\ InitStores
InitServer == variant = "server.js" /\ InitStores

-----------------------------------------------------------------------------
(* What the clients send *)

Alice == Str("a@x.com")
Secret == Str("secret1")
Emails == {Alice, Str("nope")}
Passwords == {Secret, Str("secret2"), Str("abc"), Num("123456"), NeOp(""), Undefined}

ForgedToken ==
  [userId |-> 1, email |-> "a@x.com", iat |-> 0, exp |-> 4000000, sig |-> "other"]
Mp4 == File("video", "mp4", <<"a", " ", " ", "b">>, 10)
Txt == File("text", "plain", <<"n">>, 10)
BigMp4 == File("video", "mp4", <<"a">>, FileSizeLimit + 1)
AuthHeaders == {NoHeader, BearerOnly, Bearer(ForgedToken)} \cup {Bearer(i.token) : i \in issued}
Titles == {Undefined, Str("t1")}

Quiet == IdleSlots = Conn

\* A new request takes the first free slot.
FreeSlot == {k \in IdleSlots : \A j \in IdleSlots : k <= j}

\* Every step a handler takes after its request has arrived.
Handle(k) ==
  \/ RegisterFindOne(k)
  \/ RegisterSave(k)
  \/ LoginFindOne(k)
  \/ LoginCompare(k)
  \/ RegisterFindOneWeak(k)
  \/ RegisterSaveWeak(k)
  \/ LoginFindOneWeak(k)

StoreError(k) ==
  \/ RegisterStoreError(k)
  \/ LoginStoreError(k)
  \/ RegisterStoreErrorWeak(k)
  \/ LoginStoreErrorWeak(k)

AuthArrive(k) ==
  \/ \E e \in Emails, p \in Passwords : RegisterArrive(k, e, p)
  \/ \E e \in Emails, p \in Passwords : LoginArrive(k, "ip1", e, p)
  \/ \E e \in Emails, p \in Passwords : RegisterArriveWeak(k, e, p)
  \/ \E e \in Emails, p \in Passwords : LoginArriveWeak(k, e, p)

(* Registration and login, requests overlapping *)
Next ==
  \/ nreq < MaxReqs /\ \E k \in FreeSlot : AuthArrive(k)
  \/ \E k \in Conn : Handle(k)
  \/ \E k \in Conn : StoreError(k)

Spec == Init /\ [][Next]_vars

(* Registration and login, one request at a time *)
NextSeq ==
  \/ nreq < MaxReqs /\ Quiet /\ \E k \in FreeSlot : AuthArrive(k)
  \/ \E k \in Conn : Handle(k)
  \/ \E k \in Conn : StoreError(k)

SpecSeq == Init /\ [][NextSeq]_vars

(* Logins against the limiter, server.js *)
LoginTries == {<<Alice, Secret>>, <<Alice, Str("secret2")>>, <<Str("nope"), Secret>>}

Unregistered ==
  users = {} /\ \A k \in Busy : conns[k].kind # "register"

\* One client floods the route; the other sends a request now and then.
FloodCap(route, c) == IF c = "ip1" THEN Max(route) + MaxOver ELSE 1

NextLogin ==
  \/ Unregistered /\ Quiet /\ \E k \in FreeSlot : RegisterArrive(k, Alice, Secret)
  \/ \E k \in Conn : RegisterFindOne(k)
  \/ \E k \in Conn : RegisterSave(k)
  \/ \E k \in FreeSlot, c \in Clients, try \in LoginTries :
       /\ Quiet
       /\ nreq <= Max("login") + MaxOver
       /\ hits["login"][c].totalHits < FloodCap("login", c)
       /\ LoginArrive(k, c, try[1], try[2])
  \/ \E k \in Conn : LoginFindOne(k)
  \/ \E k \in Conn : LoginCompare(k)
  \/ Quiet /\ ticks < MaxTicks /\ \E d \in {WindowMs - 1, 1} : Tick(d)

SpecLogin == InitServer /\ [][NextLogin]_vars

(* A token and the clock, server.js *)
ExpiresInMs == ExpiresInSec * 1000

TokenSteps == {999, 1000, ExpiresInMs - 1000, ExpiresInMs - 999, ExpiresInMs}

NextToken ==
  \/ Unregistered /\ \E k \in FreeSlot : RegisterArrive(k, Alice, Secret)
  \/ \E k \in Conn : RegisterFindOne(k)
  \/ \E k \in Conn : RegisterSave(k)
  \/ nreq < MaxReqs /\ \E k \in FreeSlot : LoginArrive(k, "ip1", Alice, Secret)
  \/ \E k \in Conn : LoginFindOne(k)
  \/ \E k \in Conn : LoginCompare(k)
  \/ /\ nreq < MaxReqs
     /\ \E k \in FreeSlot, i \in issued :
          UploadArrive(k, "ip1", Bearer(i.token), Mp4, Str("t1"))
  \/ \E k \in Conn : UploadHandler(k)
  \/ \E k \in Conn : UploadSave(k)
  \/ ticks < MaxTicks /\ \E d \in TokenSteps : Tick(d)

SpecToken == InitServer /\ [][NextToken]_vars

(* Uploads and listing, server.js, with store failures *)
NoLoginYet ==
  issued = {} /\ \A k \in Busy : conns[k].kind # "login"

NextUpload ==
  \/ /\ Unregistered /\ nreq <= MaxReqs
     /\ \E k \in FreeSlot : RegisterArrive(k, Alice, Secret)
  \/ \E k \in Conn : RegisterFindOne(k)
  \/ \E k \in Conn : RegisterSave(k)
  \/ \E k \in Conn : RegisterStoreError(k)
  \/ /\ NoLoginYet /\ users # {} /\ nreq <= MaxReqs
     /\ \E k \in FreeSlot : LoginArrive(k, "ip1", Alice, Secret)
  \/ \E k \in Conn : LoginFindOne(k)
  \/ \E k \in Conn : LoginCompare(k)
  \/ \E k \in Conn : LoginStoreError(k)
  \/ /\ nreq <= MaxReqs /\ Quiet
     /\ \E k \in FreeSlot, a \in AuthHeaders, f \in {NoFile, Mp4, Txt, BigMp4},
           t \in Titles : UploadArrive(k, "ip1", a, f, t)
  \/ \E k \in Conn : UploadHandler(k)
  \/ \E k \in Conn : UploadSave(k)
  \/ \E k \in Conn : UploadSaveRejects(k)
  \/ nreq <= MaxReqs /\ \E k \in FreeSlot : ReelsArrive(k)
  \/ \E k \in Conn : ReelsFind(k)
  \/ \E k \in Conn : ReelsStoreError(k)
  \/ ticks < MaxTicks /\ Tick(ExpiresInMs)

SpecUpload == InitServer /\ [][NextUpload]_vars

(* Uploads that succeed and the listing, both programs *)
UploadsSoFar == Len(reels) + Cardinality({k \in Busy : conns[k].kind = "upload"})

NextReels ==
  \/ Unregistered /\ \E k \in FreeSlot : RegisterArrive(k, Alice, Secret)
  \/ \E k \in Conn : RegisterFindOne(k)
  \/ \E k \in Conn : RegisterSave(k)
  \/ /\ NoLoginYet /\ users # {}
     /\ \E k \in FreeSlot : LoginArrive(k, "ip1", Alice, Secret)
  \/ \E k \in Conn : LoginFindOne(k)
  \/ \E k \in Conn : LoginCompare(k)
  \/ /\ UploadsSoFar < MaxReqs
     /\ \E k \in FreeSlot, i \in issued, f \in {Mp4} :
          UploadArrive(k, "ip1", Bearer(i.token), f, Str("t1"))
  \/ \E k \in Conn : UploadHandler(k)
  \/ \E k \in Conn : UploadSave(k)
  \/ /\ UploadsSoFar < MaxReqs
     /\ \E k \in FreeSlot, f \in {Mp4} : UploadArriveWeak(k, f, Str("t1"))
  \/ \E k \in Conn : UploadHandlerWeak(k)
  \/ \E k \in Conn : UploadSaveWeak(k)
  \/ nreq < 2 * MaxReqs /\ \E k \in FreeSlot : ReelsArrive(k)
  \/ nreq < 2 * MaxReqs /\ \E k \in FreeSlot : ReelsArriveWeak(k)
  \/ \E k \in Conn : ReelsFind(k)
  \/ \E k \in Conn : ReelsFindWeak(k)
  \/ nreq < MaxReqs /\ \E k \in Conn : UploadStoreErrorWeak(k)
  \/ \E k \in Conn : ReelsStoreError(k)
  \/ \E k \in Conn : ReelsStoreErrorWeak(k)
  \/ ticks < MaxTicks /\ Tick(1)

SpecReels == Init /\ [][NextReels]_vars

(* Uploads against the limiter, server.js *)
\* What the flooding client sends: no credentials, a token without a title,
\* and, while no Reel is stored, a complete upload.
FloodTries ==
  {<<NoHeader, Str("t1")>>}
    \cup {<<Bearer(i.token), Undefined>> : i \in issued}
    \cup {<<Bearer(i.token), Str("t1")>> : i \in {x \in issued : UploadsSoFar = 0}}

NextFlood ==
  \/ Unregistered /\ Quiet /\ \E k \in FreeSlot : RegisterArrive(k, Alice, Secret)
  \/ \E k \in Conn : RegisterFindOne(k)
  \/ \E k \in Conn : RegisterSave(k)
  \/ /\ NoLoginYet /\ users # {} /\ Quiet
     /\ \E k \in FreeSlot : LoginArrive(k, "ip1", Alice, Secret)
  \/ \E k \in Conn : LoginFindOne(k)
  \/ \E k \in Conn : LoginCompare(k)
  \/ \E k \in FreeSlot, c \in Clients, try \in FloodTries :
       /\ nreq <= 2 + Max("upload") + MaxOver
       /\ hits["upload"][c].totalHits < FloodCap("upload", c)
       /\ UploadArrive(k, c, try[1], Mp4, try[2])
  \/ \E k \in Conn : UploadHandler(k)
  \/ \E k \in Conn : UploadSave(k)

SpecFlood == InitServer /\ [][NextFlood]_vars

-----------------------------------------------------------------------------
(* Properties *)

Resp == lastResponse
Req == lastResponse.req
Answered(kind) == Req.kind = kind

\* The request's fields are what the running program takes for a well-formed
\* email and password: strings that pass its checks.
WellFormed(r) ==
  /\ r.email.t = "string" /\ r.password.t = "string"
  /\ IF variant = "server.js"
       THEN isEmail(r.email) /\ isLength(r.password, MinPasswordLen)
       ELSE Truthy(r.email) /\ Truthy(r.password)

\* C1: with one request at a time, a well-formed registration whose store
\* operations do not fail is answered 200 when no registration of its email
\* was answered 200 before it and 409 when one was, and once it is answered
\* the store holds exactly one User with that email.
C1_RegisterTwice ==
  (Answered("register") /\ WellFormed(Req) /\ ~Req.faulted) =>
     /\ Req.prior = 0 => Resp.status = 200
     /\ Req.prior >= 1 => Resp.status = 409 /\ Resp.body.message = "User already exists"
     /\ Cardinality(UsersWith(Req.email.v)) = 1

\* The second of two registrations of one email has been answered 409.
C1_Witness ==
  /\ Answered("register") /\ WellFormed(Req) /\ ~Req.faulted
  /\ Req.prior = 1 /\ Resp.status = 409
  /\ regOk[Req.email.v] = 1
  /\ Cardinality(UsersWith(Req.email.v)) = 1

\* The login request passed the program's input checks.
LoginChecked(r) ==
  IF variant = "server.js"
    THEN isEmail(r.email) /\ exists(r.password)
    ELSE Truthy(r.email) /\ Truthy(r.password)

\* Some user has the request's email and the request's password.
RightPassword(r) ==
  \E u \in users :
     /\ u.email = r.email.v
     /\ u.cred.of = (IF variant = "server.js" THEN r.password ELSE CastString(r.password))

\* C2: a login that passed the input checks and whose store lookup did not
\* fail, with an unknown email or with a password that is not the user's, is
\* answered 401 with the one fixed body and no token.
C2_LoginIndistinguishable ==
  (Answered("login") /\ LoginChecked(Req) /\ ~Req.faulted /\ Resp.status # 429
     /\ ~RightPassword(Req)) =>
        /\ Resp.status = 401
        /\ Resp.body = Json(FALSE, "Invalid email or password")

\* C2, for passwords that are JSON strings.
C2_StringPasswords ==
  (Answered("login") /\ Req.password.t = "string") => C2_LoginIndistinguishable

\* A wrong string password for a registered email has been answered 401.
C2_Witness ==
  /\ Answered("login") /\ Resp.status = 401 /\ Req.password.t = "string"
  /\ UsersWith(Req.email.v) # {} /\ ~RightPassword(Req)

\* C9: in server.js, whatever the interleaving, an email has at most one User
\* and at most one registration answered 200; a well-formed registration is
\* answered 200, 409 at its existence check, or 500 after it passed the check.
C9_RegisterRace ==
  variant = "server.js" =>
     /\ \A e \in EmailStrings :
          Cardinality(UsersWith(e)) <= 1 /\ regOk[e] <= 1
     /\ (Answered("register") /\ WellFormed(Req) /\ ~Req.faulted) =>
          \/ Resp.status = 200 /\ Req.pc = "save"
          \/ Resp.status = 409 /\ Req.pc = "findOne"
          \/ Resp.status = 500 /\ Req.pc = "save" /\ Req.prior = 0
               /\ Resp.body.message = "Server error"

\* In part_000 two registrations of one email were both answered 200 and
\* both documents are stored.
C9_Witness ==
  /\ variant = "part_000"
  /\ \E e \in EmailStrings : Cardinality(UsersWith(e)) = 2 /\ regOk[e] = 2
  /\ Answered("register") /\ Resp.status = 200 /\ Req.prior = 0

\* C3: a login is answered 429 exactly when it is the 11th or a later request
\* of its client in the client's window; then it carries the fixed body and
\* never got to validation, the store lookup or the comparison, whatever its
\* credentials.  Requests the handler is working on are among the first 10 of
\* their window, and the first request after a window has run out starts a
\* new one.
C3_LoginLimit ==
  /\ \A k \in Busy : conns[k].kind = "login" => conns[k].nth \in 1..LoginMax
  /\ Answered("login") =>
       /\ Resp.status = 429 <=> Req.nth > LoginMax
       /\ Resp.status = 429 =>
            /\ Resp.body = Json(FALSE, "Too many login attempts, please try later.")
            /\ Req.pc = "findOne" /\ Req.user = NoUser

\* The 11th login of a window, with the right password, has been answered 429.
C3_Witness ==
  /\ Answered("login") /\ Resp.status = 429
  /\ Req.nth = LoginMax + 1
  /\ RightPassword(Req)

\* After a throttled window ran out, a login is in the handler again.
C3_WitnessNextWindow ==
  \E k \in Busy :
     /\ conns[k].kind = "login" /\ conns[k].client = "ip1" /\ conns[k].nth = 1
     /\ nreq > LoginMax + 1

\* The issue records of the token a request presents.
IssuesOf(r) == {i \in issued : i.token = SplitToken(r.auth)}

\* The upload handler has verified the token of r at time r.at and accepted it.
TokenAccepted(r) ==
  r.kind = "upload" /\ (r.pc = "save" \/ (r = Req /\ Resp.status \in {200, 400}))

\* The upload handler has answered r 401 for its token.
TokenRejected(r) ==
  /\ r = Req /\ r.kind = "upload"
  /\ Resp.status = 401 /\ Resp.body = Json(FALSE, "Invalid token")
  /\ r.reel = NoReel

Handled == {conns[k] : k \in Busy} \cup {Req}
Verified ==
  {r \in Handled : /\ r.kind = "upload"
                   /\ r.pc \in {"verify", "save", "unhandledRejection"}
                   /\ IssuesOf(r) # {}}

\* C4 as stated: a token issued at t is accepted up to t + 1 hour (read here
\* as: at any time before t + 1 hour) and is answered 401, with no Reel, from
\* t + 1 hour + 1 second on.
C4_ValidForOneHour ==
  \A r \in Verified : \A i \in IssuesOf(r) :
     /\ r.at < i.at + ExpiresInMs => TokenAccepted(r)
     /\ r.at >= i.at + ExpiresInMs + 1000 => TokenRejected(r)

\* C4, amended: a token issued at t is accepted exactly while the clock's
\* second is before the second of t plus 3600, so at any time up to
\* t + 1 hour - 1 second, and its claims are those of the user who logged in;
\* from t + 1 hour on it is answered 401 and no Reel is created.
C4_TokenExpiry ==
  \A r \in Verified : \A i \in IssuesOf(r) :
     /\ TokenAccepted(r) <=> (r.at \div 1000) < (i.at \div 1000) + ExpiresInSec
     /\ TokenRejected(r) <=> ~TokenAccepted(r)
     /\ r.at <= i.at + ExpiresInMs - 1000 => TokenAccepted(r)
     /\ r.at >= i.at + ExpiresInMs => TokenRejected(r)
     /\ \E u \in users : u.id = i.token.userId /\ u.email = i.token.email

\* A token is refused less than an hour after it was issued.
C4_Witness ==
  \E r \in Verified : \E i \in IssuesOf(r) :
     /\ TokenRejected(r)
     /\ r.at < i.at + ExpiresInMs

\* A token is accepted one second before the hour is over.
C4_WitnessAccepted ==
  \E r \in Verified : \E i \in IssuesOf(r) :
     /\ TokenAccepted(r)
     /\ r.at = i.at + ExpiresInMs - 1000

\* The token is not one jwt.verify takes at time t.
InvalidAt(token, t) ==
  \/ token.sig # "JWT_SECRET"
  \/ {i \in issued : i.token = token} = {}
  \/ (t \div 1000) >= token.exp

\* The upload carried everything a Reel needs, checked at time r.at.
Authorized(r) ==
  /\ r.kind = "upload"
  /\ r.auth.parts >= 2 /\ ~InvalidAt(r.auth.token, r.at)
  /\ r.file.present /\ fileFilter(r.file) /\ Truthy(r.title)
  /\ r.filename \in files

\* The handler of r has run (the limiter and multer let the request through).
HandlerRan(r) == r.kind = "upload" /\ r.pc \in {"verify", "save", "unhandledRejection"}

\* The response is the JSON envelope of a failure.
FailureEnvelope(body) == body.fmt = "json" /\ ~body.success

\* C5: an upload whose "video" part is not of a video type, and which the
\* limiter let through, is answered 400 or 415 in the JSON envelope, and
\* neither its file nor a Reel is stored.
C5_UnsupportedMedia ==
  (Answered("upload") /\ Req.file.present /\ ~fileFilter(Req.file)
     /\ Resp.status # 429) =>
        /\ Resp.status \in {400, 415}
        /\ FailureEnvelope(Resp.body)
        /\ Req.filename = NoName /\ Req.reel = NoReel

\* What server.js does instead: 500 from Express's error handler, an HTML
\* page, the handler never run and nothing stored.
C5_Observed ==
  (Answered("upload") /\ Req.file.present /\ ~fileFilter(Req.file)
     /\ Resp.status # 429) =>
        /\ Resp.status = 500 /\ Resp.body.fmt = "html"
        /\ Req.pc = "handler"
        /\ Req.filename = NoName /\ Req.reel = NoReel

\* A text file sent as the video has been answered 500.
C5_Witness ==
  Answered("upload") /\ Req.file.present /\ ~fileFilter(Req.file) /\ Resp.status = 500

\* C6: no failure escapes a handler: no request is left with a rejection
\* nobody handles and no response, and every response to a failure is the
\* JSON envelope, 500 when a store operation failed.
C6_FailuresCaught ==
  /\ \A k \in Busy : conns[k].pc # "unhandledRejection"
  /\ Resp.status >= 400 => FailureEnvelope(Resp.body)
  /\ (Resp.status # 0 /\ Req.faulted) => Resp.status = 500

\* C6 for a store failure alone: the Reel save that rejects inside the
\* callback of jwt.verify is caught like the others.
C6_SaveFailureCaught ==
  \A k \in Busy : conns[k].pc # "unhandledRejection"

\* An authorized upload whose save rejected is left without a response.
C6_Witness ==
  \E k \in Busy : conns[k].pc = "unhandledRejection" /\ Authorized(conns[k])

\* The failures of the register, login and reels handlers are caught.
C6_OtherHandlers ==
  (Resp.status # 0 /\ Req.faulted) =>
     /\ Req.kind \in {"register", "login", "reels"}
     /\ Resp.status = 500 /\ FailureEnvelope(Resp.body) /\ Resp.body.error # ""

C7_State ==
  /\ \A k \in Busy :
       (conns[k].kind = "upload" /\ conns[k].pc \in {"save", "unhandledRejection"})
          => Authorized(conns[k])
  /\ (Answered("upload") /\ HandlerRan(Req)) =>
       /\ (Req.auth.parts < 2 \/ InvalidAt(Req.auth.token, Req.at))
            => Resp.status = 401 /\ Req.reel = NoReel
       /\ (Req.auth.parts >= 2 /\ ~InvalidAt(Req.auth.token, Req.at)
             /\ (~Req.file.present \/ ~Truthy(Req.title)))
            => Resp.status = 400 /\ Req.reel = NoReel
       /\ Resp.status = 200 => Authorized(Req) /\ Req.reel # NoReel
  /\ \A i \in 1..Len(reels) : reels[i].title # "" /\ reels[i].filename \in files

C7_Step ==
  reels' # reels =>
    \E k \in Busy :
       /\ Authorized(conns[k]) /\ conns[k].pc = "save"
       /\ conns'[k] = Idle
       /\ reels' = Append(reels, conns[k].reel)
       /\ lastResponse' = [req |-> conns[k], status |-> 200,
                           body |-> Json(TRUE, "Upload successful")]

\* C7: in server.js every Reel is stored by an upload that carried a token
\* signed with the secret and unexpired when checked, a video file and a
\* non-empty title, in the step that answers it 200; an upload the handler
\* takes up is answered 401 without header, without token or with an invalid
\* token, 400 with a valid token but no file or title, and stores no Reel then.
C7_ReelsAuthorized == []C7_State /\ [][C7_Step]_vars

\* A Reel is stored, and an upload with an expired token was answered 401.
C7_Witness ==
  /\ Len(reels) >= 1
  /\ Answered("upload") /\ HandlerRan(Req) /\ Resp.status = 401
  /\ Req.auth.parts >= 2 /\ Req.auth.token.sig = "JWT_SECRET"
  /\ Req.file.present /\ Truthy(Req.title)

IsPermutation(list, seq) ==
  /\ Len(list) = Len(seq)
  /\ \E f \in [1..Len(seq) -> 1..Len(seq)] :
        /\ \A i, j \in 1..Len(seq) : i # j => f[i] # f[j]
        /\ \A i \in 1..Len(seq) : list[i] = seq[f[i]]

ReelsStep ==
  \E k \in Conn :
     /\ conns'[k] # conns[k]
     /\ (conns[k] # Idle /\ conns[k].kind = "reels")
          \/ (conns'[k] # Idle /\ conns'[k].kind = "reels")

C8_Step ==
  ReelsStep =>
     /\ reels' = reels /\ users' = users /\ files' = files
     /\ (lastResponse' # lastResponse /\ lastResponse'.status = 200) =>
          /\ lastResponse'.body.fmt = "array"
          /\ IsPermutation(lastResponse'.body.list, reels)
          /\ \A i, j \in 1..Len(reels) :
               (i < j) => lastResponse'.body.list[i].created
                            >= lastResponse'.body.list[j].created

\* C8: GET /api/reels answers with every stored Reel, newest first, whatever
\* the order they were stored in, and changes neither store.
C8_ReelsNewestFirst == [][C8_Step]_vars

\* Three Reels with three timestamps, stored in neither order, were listed
\* newest first.
C8_Witness ==
  /\ Answered("reels") /\ Resp.status = 200
  /\ Len(Resp.body.list) = 3 /\ Len(reels) = 3
  /\ Resp.body.list[1].created > Resp.body.list[2].created
  /\ Resp.body.list[2].created > Resp.body.list[3].created
  /\ \E i \in 1..2 : reels[i].created > reels[i + 1].created
  /\ \E i \in 1..2 : reels[i].created < reels[i + 1].created

Orphans == {f \in files : \A i \in 1..Len(reels) : reels[i].filename # f}

C10_State ==
  /\ \A k \in Busy : conns[k].kind = "upload" =>
       /\ conns[k].nth \in 1..UploadMax
       /\ conns[k].file.present => conns[k].filename \in files
       /\ conns[k].pc = "handler" => conns[k].reel = NoReel
  /\ Answered("upload") =>
       /\ Resp.status = 429 <=> Req.nth > UploadMax
       /\ Resp.status = 429 =>
            /\ Req.filename = NoName /\ Req.pc = "handler"
            /\ Resp.body = Json(FALSE, "Too many uploads, please try later.")
       /\ (Resp.status \in {400, 401} /\ Req.file.present) =>
            /\ Req.filename \in files
            /\ Req.reel = NoReel

C10_Step ==
  /\ (lastResponse' # lastResponse /\ lastResponse'.req.kind = "upload"
        /\ lastResponse'.status = 429) => files' = files /\ reels' = reels
  /\ reels' # reels =>
       \E k \in Busy : /\ conns[k].kind = "upload" /\ conns[k].pc = "save"
                        /\ conns[k].reel.filename \in files

\* C10: the upload route counts the request, then stores the file, then
\* checks the token, then the fields, then saves the Reel: a request answered
\* 429 (the 21st and later of a window) stored no file, and one answered 401
\* or 400 that carried a video has its file in the directory and no Reel.
C10_UploadOrder == []C10_State /\ [][C10_Step]_vars

\* The 21st upload of a window carried a video and was answered 429, after
\* an upload answered 401 or 400 left its file in the directory with no Reel
\* naming it.
C10_Witness ==
  /\ Answered("upload") /\ Resp.status = 429 /\ Req.file.present
  /\ Req.nth = UploadMax + 1
  /\ Quiet /\ Orphans # {}

C10_WitnessNoToken ==
  /\ Answered("upload") /\ Resp.status = 401
  /\ Req.filename \in Orphans

C10_WitnessNoTitle ==
  /\ Answered("upload") /\ Resp.status = 400 /\ ~Truthy(Req.title)
  /\ Req.filename \in Orphans

C10_WitnessThrottled ==
  /\ Answered("upload") /\ Resp.status = 429 /\ Req.file.present
  /\ Req.nth = UploadMax + 1

====
